---- MODULE Spec2Model ----
(***************************************************************************)
(* A model of the Scrollbar component of react-scrollbars-custom           *)
(* (src/src/index.js): the synchronization pass `update`, the geometry     *)
(* functions, the track-click / thumb-drag handlers, the scroll activity   *)
(* detector and the component's life cycle under the shared frame loop.    *)
(*                                                                         *)
(* JavaScript numbers are modelled as exact rationals extended with NaN    *)
(* and the two infinities; the rounding of IEEE doubles is not modelled.   *)
(***************************************************************************)
EXTENDS Integers, Sequences, FiniteSets, TLC

(***************************************************************************)
(* Bounds of the model.                                                    *)
(***************************************************************************)
\* number of Scrollbar instances of the page
NumInst == 3
\* content sizes are the viewport size times 1..MaxPages
MaxPages == 2
\* pointer offsets of clicks and drags lie in 0..MaxOffset
MaxOffset == 6
\* inner length of a track (getInnerHeight / getInnerWidth of the track element)
TrackLen == 6
\* the minimalThumbsSize prop given to the instances
MinimalThumbsSize == 2
\* the scrollDetectionThreshold prop, in clock steps of the model
ScrollDetectionThreshold == 2
\* the static geometry methods are called with whole lengths in 0..GeomMax
GeomMax == 4

(***************************************************************************)
(* JavaScript numbers.                                                     *)
(***************************************************************************)
\* null / undefined of the nullable integer-coded fields
Null == -1

Abs(i) == IF i < 0 THEN -i ELSE i

RECURSIVE Gcd(_, _)
Gcd(a, b) == IF b = 0 THEN a ELSE Gcd(b, a % b)

NaN == [k |-> "nan", n |-> 0, d |-> 1]
PInf == [k |-> "pinf", n |-> 0, d |-> 1]
NInf == [k |-> "ninf", n |-> 0, d |-> 1]

\* the rational n/d (d # 0) in lowest terms with a positive denominator
Frac(n, d) ==
    LET g == Gcd(Abs(n), Abs(d))
        s == IF d < 0 THEN -1 ELSE 1
    IN  [k |-> "fin", n |-> (s * n) \div g, d |-> (s * d) \div g]

Num(i) == [k |-> "fin", n |-> i, d |-> 1]

IsFin(a) == a.k = "fin"
IsInf(a) == a.k \in {"pinf", "ninf"}
\* -1, 0 or 1; NaN has no sign and is never asked for one
Sign(a) ==
    CASE a.k = "pinf" -> 1
      [] a.k = "ninf" -> -1
      [] OTHER -> IF a.n > 0 THEN 1 ELSE IF a.n < 0 THEN -1 ELSE 0
InfOf(s) == IF s > 0 THEN PInf ELSE NInf

Neg(a) ==
    CASE a.k = "nan" -> NaN
      [] a.k = "pinf" -> NInf
      [] a.k = "ninf" -> PInf
      [] OTHER -> Frac(-a.n, a.d)

JsAdd(a, b) ==
    CASE a.k = "nan" \/ b.k = "nan" -> NaN
      [] IsInf(a) /\ IsInf(b) -> IF a.k = b.k THEN a ELSE NaN
      [] IsInf(a) -> a
      [] IsInf(b) -> b
      [] OTHER -> Frac(a.n * b.d + b.n * a.d, a.d * b.d)

JsSub(a, b) == JsAdd(a, Neg(b))

JsMul(a, b) ==
    CASE a.k = "nan" \/ b.k = "nan" -> NaN
      [] IsInf(a) \/ IsInf(b) ->
            IF Sign(a) * Sign(b) = 0 THEN NaN ELSE InfOf(Sign(a) * Sign(b))
      [] OTHER -> Frac(a.n * b.n, a.d * b.d)

\* a zero divisor is +0 in every division of the program (x - x)
JsDiv(a, b) ==
    CASE a.k = "nan" \/ b.k = "nan" -> NaN
      [] IsInf(a) /\ IsInf(b) -> NaN
      [] IsInf(a) -> InfOf(Sign(a) * (IF Sign(b) < 0 THEN -1 ELSE 1))
      [] IsInf(b) -> Num(0)
      [] b.n = 0 -> IF a.n = 0 THEN NaN ELSE InfOf(Sign(a))
      [] OTHER -> Frac(a.n * b.d, a.d * b.n)

\* Math.ceil
JsCeil(a) ==
    IF IsFin(a)
    THEN Num(IF a.n % a.d = 0 THEN a.n \div a.d ELSE (a.n \div a.d) + 1)
    ELSE a

\* a < b
JsLt(a, b) ==
    CASE a.k = "nan" \/ b.k = "nan" -> FALSE
      [] a.k = "pinf" \/ b.k = "ninf" -> FALSE
      [] a.k = "ninf" \/ b.k = "pinf" -> TRUE
      [] OTHER -> a.n * b.d < b.n * a.d

\* a === b
JsEq(a, b) == a.k # "nan" /\ b.k # "nan" /\ a = b

\* Math.max
JsMax(a, b) ==
    CASE a.k = "nan" \/ b.k = "nan" -> NaN
      [] JsLt(a, b) -> b
      [] OTHER -> a

\* truthiness of a number: NaN and 0 are falsy
Truthy(a) == a.k # "nan" /\ ~(a.k = "fin" /\ a.n = 0)
\* a || 0
OrZero(a) == IF Truthy(a) THEN a ELSE Num(0)
\* a && b
AndJs(a, b) == IF Truthy(a) THEN b ELSE a

(***************************************************************************)
(* Geometry (static methods of Scrollbar).                                 *)
(***************************************************************************)
computeThumbSize(trackSize, scrollableSize, viewportSize, minimalSize) ==
    LET size == OrZero(JsCeil(JsMul(JsDiv(viewportSize, scrollableSize), trackSize)))
    IN  IF JsEq(trackSize, size) THEN Num(0) ELSE JsMax(size, minimalSize)

computeThumbOffset(trackSize, thumbSize, scrollableSize, viewportSize, scrollValue) ==
    OrZero(AndJs(thumbSize,
                 JsMul(JsDiv(scrollValue, JsSub(scrollableSize, viewportSize)),
                       JsSub(trackSize, thumbSize))))

computeScrollForOffset(trackSize, thumbSize, offset, scrollableSize, viewportSize) ==
    OrZero(JsMul(JsDiv(JsSub(offset, JsDiv(thumbSize, Num(2))),
                       JsSub(trackSize, thumbSize)),
                 JsSub(scrollableSize, viewportSize)))


NullNum == [k |-> "null", n |-> 0, d |-> 1]

(***************************************************************************)
(* The component instance.                                                 *)
(***************************************************************************)
Insts == 1..NumInst
B(b) == IF b THEN 1 ELSE 0

\* this.scrollValues of the constructor: every field null
NullValues ==
    [clientHeight |-> Null, clientWidth |-> Null, scrollHeight |-> Null,
     scrollWidth |-> Null, scrollTop |-> Null, scrollLeft |-> Null,
     scrollYBlocked |-> Null, scrollXBlocked |-> Null,
     scrollYPossible |-> Null, scrollXPossible |-> Null,
     trackYVisible |-> Null, trackXVisible |-> Null, isRtl |-> Null]

\* the field each bit of the change mask stands for
MaskField ==
    [b \in 0..12 |->
        CASE b = 0 -> "clientHeight" [] b = 1 -> "clientWidth"
          [] b = 2 -> "scrollHeight" [] b = 3 -> "scrollWidth"
          [] b = 4 -> "scrollTop" [] b = 5 -> "scrollLeft"
          [] b = 6 -> "scrollYBlocked" [] b = 7 -> "scrollXBlocked"
          [] b = 8 -> "scrollYPossible" [] b = 9 -> "scrollXPossible"
          [] b = 10 -> "trackYVisible" [] b = 11 -> "trackXVisible"
          [] OTHER -> "isRtl"]

\* defaultProps; rtl and the three callbacks are absent by default
DefaultProps ==
    [rtl |-> Null,
     minimalThumbsSize |-> MinimalThumbsSize,
     trackClickBehavior |-> "jump",
     scrollDetectionThreshold |-> ScrollDetectionThreshold,
     translateContentSizesToHolder |-> FALSE,
     noScrollX |-> FALSE, noScrollY |-> FALSE, noScroll |-> FALSE,
     permanentTrackX |-> FALSE, permanentTrackY |-> FALSE, permanentTracks |-> FALSE,
     removeTracksWhenNotUsed |-> TRUE, removeTrackYWhenNotUsed |-> TRUE,
     removeTrackXWhenNotUsed |-> TRUE,
     onScroll |-> FALSE, onScrollStart |-> FALSE, onScrollStop |-> FALSE]

\* an element that is not rendered, and the elements of a first render
NoTrack == [present |-> FALSE, display |-> ""]
FreshTrack == [present |-> TRUE, display |-> ""]
NoThumb == [present |-> FALSE, styled |-> FALSE, transform |-> NullNum,
            size |-> Num(0), display |-> ""]
FreshThumb == [present |-> TRUE, styled |-> FALSE, transform |-> NullNum,
               size |-> Num(0), display |-> ""]

NoPending == [has |-> FALSE, st |-> [trackYVisible |-> TRUE, trackXVisible |-> TRUE, isRtl |-> Null]]

\* the viewport element before any layout change of the environment
Viewport(ch, sh, st, cw, sw, sl, rtl) ==
    [clientHeight |-> ch, scrollHeight |-> sh, scrollTop |-> st,
     clientWidth |-> cw, scrollWidth |-> sw, scrollLeft |-> sl, direction |-> rtl]

\* new Scrollbar(props), not yet mounted
Constructed(props, vp) ==
    [props |-> props,
     state |-> [trackYVisible |-> TRUE, trackXVisible |-> TRUE, isRtl |-> props.rtl],
     scrollValues |-> NullValues,
     phase |-> "new",
     contentEl |-> FALSE,
     listening |-> FALSE,
     vp |-> vp,
     trackYEl |-> NoTrack, thumbYEl |-> NoThumb,
     trackXEl |-> NoTrack, thumbXEl |-> NoThumb,
     holder |-> FALSE,
     timeout |-> FALSE, elapsed |-> 0,
     pending |-> NoPending, batch |-> FALSE,
     fault |-> FALSE,
     log |-> << >>]

Ev(e, a, b) == [e |-> e, a |-> a, b |-> b]
Log(s, e, a, b) == [s EXCEPT !.log = Append(@, Ev(e, a, b))]

Merge(st, partial) ==
    [key \in DOMAIN st |-> IF key \in DOMAIN partial THEN partial[key] ELSE st[key]]

\* render(): which tracks (with their thumbs) are part of the output, lines 862-872;
\* an element that stays keeps the styles written to it, a new one has none
Render(s) ==
    LET p == s.props
        wantY == s.state.trackYVisible
                    \/ ~(p.removeTracksWhenNotUsed /\ p.removeTrackYWhenNotUsed)
        wantX == s.state.trackXVisible
                    \/ ~(p.removeTracksWhenNotUsed /\ p.removeTrackXWhenNotUsed)
    IN  [s EXCEPT
            !.trackYEl = IF ~wantY THEN NoTrack ELSE IF @.present THEN @ ELSE FreshTrack,
            !.thumbYEl = IF ~wantY THEN NoThumb ELSE IF @.present THEN @ ELSE FreshThumb,
            !.trackXEl = IF ~wantX THEN NoTrack ELSE IF @.present THEN @ ELSE FreshTrack,
            !.thumbXEl = IF ~wantX THEN NoThumb ELSE IF @.present THEN @ ELSE FreshThumb]

\* getInnerHeight / getInnerWidth of a rendered track element
getInnerSize(trackEl) == Num(TrackLen)

\* lines 469-472, and the same with the blocking props forgotten
scrollPossible_unblocked(blocked, scrollSize, clientSize) == scrollSize > clientSize
scrollPossible(blocked, scrollSize, clientSize) == ~blocked /\ scrollSize > clientSize

\* lines 452-476: the six metrics read from the viewport and the derived fields
Sample(s) ==
    LET p == s.props
        v == s.vp
        xBlocked == p.noScroll \/ p.noScrollX
        yBlocked == p.noScroll \/ p.noScrollY
        xPossible == scrollPossible(xBlocked, v.scrollWidth, v.clientWidth)
        yPossible == scrollPossible(yBlocked, v.scrollHeight, v.clientHeight)
    IN  [clientHeight |-> v.clientHeight, clientWidth |-> v.clientWidth,
         scrollHeight |-> v.scrollHeight, scrollWidth |-> v.scrollWidth,
         scrollTop |-> v.scrollTop, scrollLeft |-> v.scrollLeft,
         scrollYBlocked |-> B(yBlocked), scrollXBlocked |-> B(xBlocked),
         scrollYPossible |-> B(yPossible), scrollXPossible |-> B(xPossible),
         trackYVisible |-> B(yPossible \/ p.permanentTracks \/ p.permanentTrackY),
         trackXVisible |-> B(xPossible \/ p.permanentTracks \/ p.permanentTrackX),
         isRtl |-> s.state.isRtl]

\* lines 478-492: the bits of the fields that differ
ChangeMask(stored, current) ==
    {b \in 0..12 : stored[MaskField[b]] # current[MaskField[b]]}

\* lines 516-545: the Y track and thumb
placeThumbY(s, cur, mask) ==
    IF ~s.trackYEl.present THEN s
    ELSE
      LET s1 == IF 10 \in mask
                THEN Log([s EXCEPT !.trackYEl.display =
                                       IF cur.trackYVisible = 1 THEN "" ELSE "none"],
                         "track", "Y", cur.trackYVisible)
                ELSE s
      IN  IF mask \cap {0, 2, 4, 6, 8} = {} THEN s1
          ELSE IF cur.scrollYPossible = 1
          THEN LET trackSize == getInnerSize(s1.trackYEl)
                   thumbSize == computeThumbSize(trackSize, Num(cur.scrollHeight),
                                    Num(cur.clientHeight), Num(s1.props.minimalThumbsSize))
                   thumbOffset == computeThumbOffset(trackSize, thumbSize,
                                    Num(cur.scrollHeight), Num(cur.clientHeight),
                                    Num(cur.scrollTop))
                   el == [present |-> TRUE, styled |-> TRUE, transform |-> thumbOffset,
                          size |-> thumbSize, display |-> ""]
               IN  Log([s1 EXCEPT !.thumbYEl = el], "thumb", "Y", el)
          ELSE LET el == [present |-> TRUE, styled |-> TRUE, transform |-> NullNum,
                          size |-> Num(0), display |-> "none"]
               IN  Log([s1 EXCEPT !.thumbYEl = el], "thumb", "Y", el)

\* the mirroring left out
mirrorOffset_never(isRtl, thumbSize, thumbOffset, trackSize) == thumbOffset

\* lines 568-570: the horizontal thumb of a right-to-left instance
mirrorOffset(isRtl, thumbSize, thumbOffset, trackSize) ==
    IF isRtl = 1 THEN JsSub(JsAdd(thumbSize, thumbOffset), trackSize) ELSE thumbOffset

\* lines 548-581: the X track and thumb
placeThumbX(s, cur, mask) ==
    IF ~s.trackXEl.present THEN s
    ELSE
      LET s1 == IF 11 \in mask
                THEN Log([s EXCEPT !.trackXEl.display =
                                       IF cur.trackXVisible = 1 THEN "" ELSE "none"],
                         "track", "X", cur.trackXVisible)
                ELSE s
      IN  IF mask \cap {1, 3, 5, 7, 9} = {} THEN s1
          ELSE IF cur.scrollXPossible = 1
          THEN LET trackSize == getInnerSize(s1.trackXEl)
                   thumbSize == computeThumbSize(trackSize, Num(cur.scrollWidth),
                                    Num(cur.clientWidth), Num(s1.props.minimalThumbsSize))
                   rawOffset == computeThumbOffset(trackSize, thumbSize,
                                    Num(cur.scrollWidth), Num(cur.clientWidth),
                                    Num(cur.scrollLeft))
                   thumbOffset == mirrorOffset(s1.state.isRtl, thumbSize, rawOffset,
                                               trackSize)
                   el == [present |-> TRUE, styled |-> TRUE, transform |-> thumbOffset,
                          size |-> thumbSize, display |-> ""]
               IN  Log([s1 EXCEPT !.thumbXEl = el], "thumb", "X", el)
          ELSE LET el == [present |-> TRUE, styled |-> TRUE, transform |-> NullNum,
                          size |-> Num(0), display |-> "none"]
               IN  Log([s1 EXCEPT !.thumbXEl = el], "thumb", "X", el)

\* lines 583-586: the holder takes the content's sizes; the wrapper element of
\* line 583 is attached and detached together with the viewport element
translateSizes(s, cur, mask) ==
    IF s.props.translateContentSizesToHolder /\ s.contentEl /\ mask \cap {2, 3} # {}
    THEN Log([s EXCEPT !.holder = TRUE], "holder", cur.scrollWidth, cur.scrollHeight)
    ELSE s

\* the observer told of the first commit as well
notifyScroll_always(s, prev) ==
    IF s.props.onScroll THEN Log(s, "onScroll", s.scrollValues, prev) ELSE s

\* lines 588-590
notifyScroll(s, prev) ==
    IF prev.scrollTop # Null /\ s.props.onScroll
    THEN Log(s, "onScroll", s.scrollValues, prev)
    ELSE s

\* the forced flag not read at all
nothingToDo_ignoresForced(mask, forced) == mask = {}

\* the forced flag read the wrong way round
nothingToDo_forcedOnly(mask, forced) == mask = {} /\ forced

\* line 495
nothingToDo(mask, forced) == mask = {} /\ ~forced

\* the visibility branch taken for the Y track only
visibilityChanged_onlyY(mask) == 10 \in mask

\* line 500
visibilityChanged(mask) == mask \cap {10, 11} # {}

RECURSIVE update(_, _)
RECURSIVE setState(_, _)
RECURSIVE Commit(_, _, _)
RECURSIVE Flush(_)
RECURSIVE componentDidUpdate(_, _, _)
RECURSIVE updateIfRtlChanged(_, _)

\* this.setState(partial): queued inside a life-cycle method, where React batches,
\* and applied at once (state, render, componentDidUpdate) everywhere else
setState(s, partial) ==
    LET s1 == Log(s, "setState", partial, s.batch)
    IN  IF s1.batch
        THEN [s1 EXCEPT !.pending =
                 [has |-> TRUE,
                  st |-> Merge(IF @.has THEN @.st ELSE s1.state, partial)]]
        ELSE Commit([s1 EXCEPT !.state = Merge(@, partial)], s1.props, s1.state)

\* React's commit of new props or state: render, componentDidUpdate, and then the
\* state updates componentDidUpdate queued, until none is left
Commit(s, prevProps, prevState) ==
    Flush([componentDidUpdate([Render(s) EXCEPT !.batch = TRUE], prevProps, prevState)
              EXCEPT !.batch = s.batch])

\* React applies the state updates that were queued, if any
Flush(s) ==
    IF s.pending.has
    THEN Commit([s EXCEPT !.state = s.pending.st, !.pending = NoPending],
                s.props, s.state)
    ELSE s

\* lines 239-247
componentDidUpdate(s, prevProps, prevState) ==
    updateIfRtlChanged(IF s.props.rtl # prevProps.rtl /\ s.props.rtl # s.state.isRtl
                       THEN setState(s, [isRtl |-> s.props.rtl])
                       ELSE s,
                       prevState)

\* lines 244-246
updateIfRtlChanged(s, prevState) ==
    IF s.state.isRtl # prevState.isRtl THEN update(s, FALSE) ELSE s

\* return this.scrollValues (lines 446, 496, 510, 592)
Returning(s) == Log(s, "return", s.scrollValues, 0)

\* line 440: typeof this.state.isRtl !== "boolean", and the same with every
\* orientation taken as resolved
orientationUnresolved_never(s) == FALSE
orientationUnresolved(s) == s.state.isRtl = Null

\* lines 439-593; a read through the null contentEl throws (lines 442, 453)
update(s, forced) ==
    LET s0 == Log(s, "update", forced, 0)
    IN
    IF ~s0.contentEl THEN [Log(s0, "throw", "TypeError", 0) EXCEPT !.fault = TRUE]
    ELSE IF orientationUnresolved(s0)
    THEN Returning(setState(s0, [isRtl |-> B(s0.vp.direction = "rtl")]))
    ELSE
      LET cur == Sample(s0)
          mask == ChangeMask(s0.scrollValues, cur)
          s1 == Log(s0, "sample", cur, mask)
      IN  IF nothingToDo(mask, forced) THEN Returning(s1)
          ELSE IF visibilityChanged(mask)
          THEN LET s2 == [s1 EXCEPT !.scrollValues.trackYVisible = cur.trackYVisible,
                                    !.scrollValues.trackXVisible = cur.trackXVisible]
                   s3 == setState(s2, [trackYVisible |-> cur.trackYVisible = 1,
                                       trackXVisible |-> cur.trackXVisible = 1])
               IN  Returning(update(s3, TRUE))
          ELSE LET prev == s1.scrollValues
                   s2 == Log([s1 EXCEPT !.scrollValues = cur], "commit", cur, prev)
                   s3 == placeThumbY(s2, cur, mask)
                   s4 == placeThumbX(s3, cur, mask)
                   s5 == translateSizes(s4, cur, mask)
               IN  Returning(notifyScroll(s5, prev))

(***************************************************************************)
(* The scroll activity detector.                                           *)
(***************************************************************************)
\* the handle of the timer is never looked at
timerPending_never(s) == FALSE

\* lines 276 and 280: this.scrollDetect.timeout holds the handle of a pending timer
timerPending(s) == s.timeout

\* line 272: neither observer is configured; and the same with the test left out
noObservers_never(p) == FALSE
noObservers(p) == ~p.onScrollStart /\ ~p.onScrollStop

\* lines 271-286
scrollDetect(s) ==
    LET s0 == Log(s, "scrollDetect", 0, 0)
    IN
    IF noObservers(s0.props) THEN s0
    ELSE
      LET s1 == IF ~timerPending(s0) /\ s0.props.onScrollStart
                THEN Log(s0, "onScrollStart", s0.scrollValues, 0)
                ELSE s0
          s2 == IF timerPending(s1) THEN Log(s1, "clearTimeout", 0, 0) ELSE s1
      IN  Log([s2 EXCEPT !.timeout = TRUE, !.elapsed = 0], "setTimeout", 0, 0)

\* lines 282-285: the timer's callback
scrollDetectTimeout(s) ==
    LET s1 == [s EXCEPT !.timeout = FALSE, !.elapsed = 0]
    IN  IF s1.props.onScrollStop THEN Log(s1, "onScrollStop", s1.scrollValues, 0) ELSE s1

\* lines 267-269
handleScrollEvent(s) == scrollDetect(s)

(***************************************************************************)
(* The viewport element and the public scroll properties.                  *)
(***************************************************************************)
\* what the viewport keeps of a value assigned to scrollTop / scrollLeft: a value
\* that is not finite counts as 0, the rest is clamped to the scrollable range and
\* truncated to whole pixels
DomStore(value, max) ==
    IF ~IsFin(value) THEN 0
    ELSE LET whole == value.n \div value.d
         IN  IF whole < 0 THEN 0 ELSE IF whole > max THEN max ELSE whole

\* this.contentEl.scrollTop = value / this.contentEl.scrollLeft = value; the
\* scroll event the viewport dispatches afterwards is a step of its own
WriteScroll(s, axis, value) ==
    LET v == s.vp
        s1 == IF axis = "Y"
              THEN [s EXCEPT !.vp.scrollTop = DomStore(value, v.scrollHeight - v.clientHeight)]
              ELSE [s EXCEPT !.vp.scrollLeft = DomStore(value, v.scrollWidth - v.clientWidth)]
    IN  Log(s1, "write", axis, value)

\* lines 307-312
setScrollTop(s, top) ==
    IF s.contentEl THEN update(WriteScroll(s, "Y", top), FALSE) ELSE s

\* lines 332-336
setScrollLeft(s, left) ==
    IF s.contentEl THEN WriteScroll(s, "X", left) ELSE s

\* lines 387-432: scrollToTop, scrollToBottom, scrollToLeft, scrollToRight
scrollTo(s, edge) ==
    IF ~s.contentEl THEN s
    ELSE CASE edge = "top" -> WriteScroll(s, "Y", Num(0))
           [] edge = "bottom" -> WriteScroll(s, "Y", Num(s.vp.scrollHeight))
           [] edge = "left" -> WriteScroll(s, "X", Num(0))
           [] OTHER -> WriteScroll(s, "X", Num(s.vp.scrollWidth))

(***************************************************************************)
(* Track clicks and thumb drags.                                           *)
(***************************************************************************)
\* thumbXEl.clientWidth / thumbYEl.clientHeight: the length written by update, 0
\* for a hidden thumb; a thumb no pass has styled yet has the length of the
\* default styles (lines 44-56): the X thumb fills its track, the Y thumb is empty
thumbClientSize(s, axis) ==
    LET el == IF axis = "X" THEN s.thumbXEl ELSE s.thumbYEl
    IN  IF el.display = "none" THEN Num(0)
        ELSE IF ~el.styled THEN (IF axis = "X" THEN getInnerSize(s.trackXEl) ELSE Num(0))
        ELSE el.size

\* lines 599-614
scrollTargetOf(s, axis, offset) ==
    IF axis = "X"
    THEN computeScrollForOffset(getInnerSize(s.trackXEl), thumbClientSize(s, "X"),
                                Num(offset), Num(s.vp.scrollWidth), Num(s.vp.clientWidth))
    ELSE computeScrollForOffset(getInnerSize(s.trackYEl), thumbClientSize(s, "Y"),
                                Num(offset), Num(s.vp.scrollHeight), Num(s.vp.clientHeight))

\* a step goes all the way to the target
stepScroll_toTarget(current, scrollTarget, clientSize) == scrollTarget

\* lines 622-624 and 627-629: one viewport length towards the target
stepScroll(current, scrollTarget, clientSize) ==
    IF JsLt(Num(current), scrollTarget)
    THEN Num(current + clientSize)
    ELSE Num(current - clientSize)

\* lines 595-631
handleTrackClick(s, axis, offset) ==
    LET scrollTarget == scrollTargetOf(s, axis, offset)
        v == s.vp
    IN  IF s.props.trackClickBehavior = "jump"
        THEN WriteScroll(s, axis, scrollTarget)
        ELSE IF s.props.trackClickBehavior = "step"
        THEN IF axis = "X"
             THEN WriteScroll(s, "X", stepScroll(v.scrollLeft, scrollTarget, v.clientWidth))
             ELSE WriteScroll(s, "Y", stepScroll(v.scrollTop, scrollTarget, v.clientHeight))
        ELSE s

\* lines 633-636
handleThumbDragStart(s, axis) == Log(s, "onDragStart", axis, 0)

\* lines 638-641
handleThumbDragEnd(s, axis) == Log(s, "onDragEnd", axis, 0)

\* the position is written before the detector is told
handleThumbDrag_writesFirst(s, axis, offset) ==
    scrollDetect(WriteScroll(Log(s, "onDrag", axis, offset), axis,
                             scrollTargetOf(s, axis, offset)))

\* lines 643-668
handleThumbDrag(s, axis, offset) ==
    LET s1 == scrollDetect(s)
    IN  WriteScroll(Log(s1, "onDrag", axis, offset), axis, scrollTargetOf(s1, axis, offset))

(***************************************************************************)
(* The shared frame loop (util/LoopController).                            *)
(***************************************************************************)
InSeq(q, e) == \E k \in DOMAIN q : q[k] = e

\* registerScrollbar: the first registration starts the loop
registerScrollbar(lc, i) ==
    IF InSeq(lc.targets, i) THEN lc
    ELSE [targets |-> Append(lc.targets, i), active |-> TRUE]

\* unregisterScrollbar: the loop stops with the last instance; a handle that is
\* not registered is ignored
unregisterScrollbar(lc, i) ==
    LET rest == SelectSeq(lc.targets, LAMBDA e : e # i)
    IN  IF ~InSeq(lc.targets, i) THEN lc
        ELSE [targets |-> rest, active |-> rest # << >>]

(***************************************************************************)
(* Life cycle.                                                             *)
(***************************************************************************)
\* the end of a batch: React applies the state updates a life-cycle method queued
FlushBatch(s) == Flush([s EXCEPT !.batch = FALSE])

\* lines 249-257, on the instance: the first render attached the refs
componentDidMount(s) ==
    LET s1 == Render([s EXCEPT !.phase = "mounted", !.contentEl = TRUE, !.batch = TRUE])
    IN  FlushBatch(update([s1 EXCEPT !.listening = TRUE], FALSE))

\* line 250
componentDidMountLoop(lc, i) == registerScrollbar(lc, i)

\* lines 259-265, on the instance; React then detaches every ref
componentWillUnmount(s) ==
    [s EXCEPT !.phase = "unmounted", !.listening = FALSE, !.contentEl = FALSE,
              !.trackYEl = NoTrack, !.thumbYEl = NoThumb,
              !.trackXEl = NoTrack, !.thumbXEl = NoThumb]

\* the instance stays registered
componentWillUnmountLoop_keeps(lc, i) == lc

\* the instance registered first is unregistered, whichever unmounts
componentWillUnmountLoop_first(lc, i) == unregisterScrollbar(lc, lc.targets[1])

\* line 260
componentWillUnmountLoop(lc, i) == unregisterScrollbar(lc, i)

\* the parent renders the component with new props
receiveProps(s, props) == Commit([s EXCEPT !.props = props], s.props, s.state)

(***************************************************************************)
(* State: the instances, the frame loop, and what the last step was.       *)
(***************************************************************************)
VARIABLES
    inst,    \* the Scrollbar instances; inst[i].log is the trace of i's last handler
    loop,    \* the LoopController: its registered instances, in order, and its flag
    fx,      \* the last step: its operation, its instance, the instances a tick
             \* visited, the axis and the pointer offset of a gesture, the
             \* arguments and the result of a call of a static method
    hist     \* history: the order of the mounts, and for each instance the clock
             \* steps since its last scroll signal (Null outside a burst), the
             \* signals of the burst (counted up to 2) and the last notification

vars == <<inst, loop, fx, hist>>

\* the layouts and scroll positions the environment gives a viewport
YLayouts == {[c |-> 2, s |-> 2 * k] : k \in 1..MaxPages}
XLayouts == {[c |-> 2, s |-> 2], [c |-> 2, s |-> 4]}
Axes == {"X", "Y"}
Edges == {"top", "bottom", "left", "right"}

InitialViewport(dir) == Viewport(2, 2, 0, 2, 2, 0, dir)

\* the props a parent changes while the instance is mounted
Variation(r, py, nx) == [rtl |-> r, permanentTrackY |-> py, noScrollX |-> nx]
RtlVariations == {Variation(r, FALSE, FALSE) : r \in {Null, 0, 1}}
TrackVariations == {Variation(Null, py, nx) : py \in BOOLEAN, nx \in BOOLEAN}
WithVariation(p, v) ==
    [p EXCEPT !.rtl = v.rtl, !.permanentTrackY = v.permanentTrackY,
              !.noScrollX = v.noScrollX]

\* the props that stay as given at construction
SyncProps ==
    {[DefaultProps EXCEPT !.onScroll = TRUE, !.translateContentSizesToHolder = TRUE,
                          !.removeTracksWhenNotUsed = rm] : rm \in BOOLEAN}
    \cup {DefaultProps}

Begin(s) == [s EXCEPT !.log = << >>, !.fault = FALSE]
Step(op, i) ==
    [op |-> op, i |-> i, ticked |-> << >>, axis |-> "", offset |-> 0,
     args |-> << >>, result |-> Num(0)]
Gesture(op, i, axis, offset) == [Step(op, i) EXCEPT !.axis = axis, !.offset = offset]

InitWith(propsOfFirst, dirs) ==
    /\ \E p \in propsOfFirst, d \in dirs :
          inst = [i \in Insts |->
                    Constructed(IF i = 1 THEN p ELSE DefaultProps, InitialViewport(d))]
    /\ loop = [targets |-> << >>, active |-> FALSE]
    /\ fx = Step("init", 0)
    /\ hist = [mounts |-> << >>, since |-> [i \in Insts |-> Null],
               signals |-> [i \in Insts |-> 0], lastNote |-> [i \in Insts |-> "none"]]

(***************************************************************************)
(* Steps.                                                                  *)
(***************************************************************************)
\* the timer of the detector has run its time; the host then runs its callback
\* before it delivers anything else to the instance
TimerDue(s) == s.timeout /\ s.elapsed = s.props.scrollDetectionThreshold

\* the instances whose bursts the history follows: those with an observer
Observed(i) == inst[i].props.onScrollStart \/ inst[i].props.onScrollStop

\* history: a scroll signal reaches instance i
Signalled(h, i) ==
    IF ~Observed(i) THEN h
    ELSE [h EXCEPT !.since[i] = 0,
                   !.signals[i] = IF h.since[i] \in {Null, ScrollDetectionThreshold}
                                  THEN 1 ELSE 2]

\* history: the last start / stop notification of the trace, if it has one
Noted(h, i, log) ==
    LET notes == SelectSeq(log, LAMBDA ev : ev.e \in {"onScrollStart", "onScrollStop"})
    IN  IF notes = << >> THEN h
        ELSE [h EXCEPT !.lastNote[i] =
                 IF notes[Len(notes)].e = "onScrollStart" THEN "start" ELSE "stop"]

Mount(i) ==
    /\ inst[i].phase = "new"
    /\ inst' = [inst EXCEPT ![i] = componentDidMount(Begin(@))]
    /\ loop' = componentDidMountLoop(loop, i)
    /\ fx' = Step("Mount", i)
    /\ hist' = [hist EXCEPT !.mounts = Append(@, i)]

Unmount(i) ==
    /\ inst[i].phase = "mounted"
    /\ inst' = [inst EXCEPT ![i] = componentWillUnmount(Begin(@))]
    /\ loop' = componentWillUnmountLoop(loop, i)
    /\ fx' = Step("Unmount", i)
    /\ UNCHANGED hist

\* one frame: the loop calls update() of every registered instance, in order
Tick ==
    /\ loop.active
    /\ inst' = [i \in Insts |->
                  IF InSeq(loop.targets, i) THEN update(Begin(inst[i]), FALSE) ELSE inst[i]]
    /\ fx' = [Step("Tick", 0) EXCEPT !.ticked = loop.targets]
    /\ UNCHANGED <<loop, hist>>

\* the layout changes the size of the viewport or of its content on one axis
Resize(i, axis, lay) ==
    /\ inst[i].phase = "mounted"
    /\ LET v == inst[i].vp
       IN  IF axis = "Y"
           THEN /\ <<v.clientHeight, v.scrollHeight>> # <<lay.c, lay.s>>
                /\ inst' = [inst EXCEPT ![i] = [Begin(@) EXCEPT
                              !.vp.clientHeight = lay.c, !.vp.scrollHeight = lay.s,
                              !.vp.scrollTop = DomStore(Num(v.scrollTop), lay.s - lay.c)]]
           ELSE /\ <<v.clientWidth, v.scrollWidth>> # <<lay.c, lay.s>>
                /\ inst' = [inst EXCEPT ![i] = [Begin(@) EXCEPT
                              !.vp.clientWidth = lay.c, !.vp.scrollWidth = lay.s,
                              !.vp.scrollLeft = DomStore(Num(v.scrollLeft), lay.s - lay.c)]]
    /\ fx' = Step("Resize", i)
    /\ UNCHANGED <<loop, hist>>

\* the user scrolls the viewport to an end of its range; the viewport's scroll
\* event reaches the listener of lines 252-254
UserScroll(i, axis, toEnd) ==
    /\ inst[i].phase = "mounted"
    /\ LET v == inst[i].vp
           pos == IF ~toEnd THEN 0
                  ELSE IF axis = "Y" THEN v.scrollHeight - v.clientHeight
                  ELSE v.scrollWidth - v.clientWidth
           s1 == IF axis = "Y" THEN [Begin(inst[i]) EXCEPT !.vp.scrollTop = pos]
                 ELSE [Begin(inst[i]) EXCEPT !.vp.scrollLeft = pos]
       IN  /\ pos # (IF axis = "Y" THEN v.scrollTop ELSE v.scrollLeft)
           /\ inst' = [inst EXCEPT ![i] = IF s1.listening THEN handleScrollEvent(s1) ELSE s1]
    /\ ~TimerDue(inst[i])
    /\ fx' = Step("UserScroll", i)
    /\ hist' = Noted(Signalled(hist, i), i, inst'[i].log)
    /\ UNCHANGED loop

SetProps(i, v) ==
    /\ inst[i].phase = "mounted"
    /\ WithVariation(inst[i].props, v) # inst[i].props
    /\ inst' = [inst EXCEPT ![i] = receiveProps(Begin(@), WithVariation(@.props, v))]
    /\ fx' = Step("SetProps", i)
    /\ UNCHANGED <<loop, hist>>

\* a holder of the instance calls update(forced), mounted or not
PublicUpdate(i, forced) ==
    /\ inst[i].phase # "new"
    /\ inst' = [inst EXCEPT ![i] = update(Begin(@), forced)]
    /\ fx' = Step(IF forced THEN "UpdateForced" ELSE "Update", i)
    /\ UNCHANGED <<loop, hist>>

SetScrollTop(i, top) ==
    /\ inst[i].phase # "new"
    /\ inst' = [inst EXCEPT ![i] = setScrollTop(Begin(@), Num(top))]
    /\ fx' = Step("SetScrollTop", i)
    /\ UNCHANGED <<loop, hist>>

SetScrollLeft(i, left) ==
    /\ inst[i].phase # "new"
    /\ inst' = [inst EXCEPT ![i] = setScrollLeft(Begin(@), Num(left))]
    /\ fx' = Step("SetScrollLeft", i)
    /\ UNCHANGED <<loop, hist>>

ScrollTo(i, edge) ==
    /\ inst[i].phase # "new"
    /\ inst' = [inst EXCEPT ![i] = scrollTo(Begin(@), edge)]
    /\ fx' = Step("ScrollTo", i)
    /\ UNCHANGED <<loop, hist>>

\* the values a caller assigns to scrollTop / scrollLeft
Assigned == {0, 2 * MaxPages}

ResizeAny(i) ==
    \E axis \in Axes, lay \in (YLayouts \cup XLayouts) :
        /\ lay \in (IF axis = "Y" THEN YLayouts ELSE XLayouts)
        /\ Resize(i, axis, lay)

(***************************************************************************)
(* Spec: one instance under the frame loop while the layout, the scroll    *)
(* positions and the orientation override change.                          *)
(***************************************************************************)
Init == InitWith(SyncProps, {"ltr", "rtl"})

Next ==
    \/ Mount(1)
    \/ Unmount(1)
    \/ Tick
    \/ ResizeAny(1)
    \/ \E axis \in Axes, toEnd \in BOOLEAN : UserScroll(1, axis, toEnd)
    \/ \E v \in RtlVariations : SetProps(1, v)

Spec == Init /\ [][Next]_vars

(***************************************************************************)
(* Further steps: gestures, the clock, the public interface.               *)
(***************************************************************************)
TrackOf(s, axis) == IF axis = "X" THEN s.trackXEl ELSE s.trackYEl
ThumbOf(s, axis) == IF axis = "X" THEN s.thumbXEl ELSE s.thumbYEl

\* the Track component reports a click at a pixel offset
TrackClick(i, axis, offset) ==
    /\ inst[i].phase = "mounted"
    /\ TrackOf(inst[i], axis).present
    /\ inst' = [inst EXCEPT ![i] = handleTrackClick(Begin(@), axis, offset)]
    /\ fx' = Gesture("TrackClick", i, axis, offset)
    /\ UNCHANGED <<loop, hist>>

\* the Thumb component reports a drag move at a pixel offset
ThumbDrag(i, axis, offset) ==
    /\ inst[i].phase = "mounted"
    /\ ThumbOf(inst[i], axis).present /\ ThumbOf(inst[i], axis).display # "none"
    /\ ~TimerDue(inst[i])
    /\ inst' = [inst EXCEPT ![i] = handleThumbDrag(Begin(@), axis, offset)]
    /\ fx' = Gesture("ThumbDrag", i, axis, offset)
    /\ hist' = Noted(Signalled(hist, i), i, inst'[i].log)
    /\ UNCHANGED loop

ThumbDragStart(i, axis) ==
    /\ inst[i].phase = "mounted"
    /\ ThumbOf(inst[i], axis).present /\ ThumbOf(inst[i], axis).display # "none"
    /\ inst' = [inst EXCEPT ![i] = handleThumbDragStart(Begin(@), axis)]
    /\ fx' = Gesture("ThumbDragStart", i, axis, 0)
    /\ UNCHANGED <<loop, hist>>

ThumbDragEnd(i, axis) ==
    /\ inst[i].phase = "mounted"
    /\ ThumbOf(inst[i], axis).present /\ ThumbOf(inst[i], axis).display # "none"
    /\ inst' = [inst EXCEPT ![i] = handleThumbDragEnd(Begin(@), axis)]
    /\ fx' = Gesture("ThumbDragEnd", i, axis, 0)
    /\ UNCHANGED <<loop, hist>>

\* one step of the clock, while no timer is due
TimePasses ==
    /\ \E i \in Insts : inst[i].timeout \/ hist.since[i] \notin {Null, ScrollDetectionThreshold}
    /\ \A i \in Insts : ~TimerDue(inst[i])
    /\ inst' = [i \in Insts |->
                  IF inst[i].timeout THEN [inst[i] EXCEPT !.elapsed = @ + 1] ELSE inst[i]]
    /\ hist' = [hist EXCEPT !.since =
                  [i \in Insts |->
                     IF @[i] \in {Null, ScrollDetectionThreshold} THEN @[i] ELSE @[i] + 1]]
    /\ fx' = Step("TimePasses", 0)
    /\ UNCHANGED loop

\* the host runs the callback of a timer that is due
TimerFire(i) ==
    /\ TimerDue(inst[i])
    /\ inst' = [inst EXCEPT ![i] = scrollDetectTimeout(Begin(@))]
    /\ fx' = Step("TimerFire", i)
    /\ hist' = Noted([hist EXCEPT !.since[i] = Null], i, inst'[i].log)
    /\ UNCHANGED loop

(***************************************************************************)
(* SpecProps: one instance under the frame loop while the layout and the   *)
(* track props (permanentTrackY, noScrollX) change.                        *)
(***************************************************************************)
InitProps == InitWith(SyncProps, {"ltr"})

NextProps ==
    \/ Mount(1)
    \/ Unmount(1)
    \/ Tick
    \/ ResizeAny(1)
    \/ \E v \in TrackVariations : SetProps(1, v)

SpecProps == InitProps /\ [][NextProps]_vars

(***************************************************************************)
(* SpecTracks: one instance under the frame loop, constructed with any of  *)
(* noScroll, noScrollY, permanentTracks, permanentTrackX, while the layout *)
(* and the props noScrollX and permanentTrackY change.                     *)
(***************************************************************************)
BlockingProps ==
    {[DefaultProps EXCEPT !.noScroll = ns, !.noScrollY = ny,
                          !.permanentTracks = pt, !.permanentTrackX = px] :
        ns \in BOOLEAN, ny \in BOOLEAN, pt \in BOOLEAN, px \in BOOLEAN}

InitTracks == InitWith(BlockingProps, {"ltr"})

NextTracks ==
    \/ Mount(1)
    \/ Unmount(1)
    \/ Tick
    \/ ResizeAny(1)
    \/ \E v \in TrackVariations : SetProps(1, v)

SpecTracks == InitTracks /\ [][NextTracks]_vars

(***************************************************************************)
(* SpecApi: one instance driven through its public interface.              *)
(***************************************************************************)
InitApi == InitWith(SyncProps, {"rtl"})

NextApi ==
    \/ Mount(1)
    \/ Unmount(1)
    \/ ResizeAny(1)
    \/ \E forced \in BOOLEAN : PublicUpdate(1, forced)
    \/ \E top \in Assigned : SetScrollTop(1, top)
    \/ \E left \in Assigned : SetScrollLeft(1, left)
    \/ \E edge \in Edges : ScrollTo(1, edge)

SpecApi == InitApi /\ [][NextApi]_vars

(***************************************************************************)
(* SpecGesture: one instance with track clicks and thumb drags.            *)
(***************************************************************************)
GestureProps ==
    {[DefaultProps EXCEPT !.trackClickBehavior = c] : c \in {"jump", "step"}}

\* the pointer offsets of the gestures: the ends and the middle of the range
Offsets == {0, MaxOffset \div 2, MaxOffset}

InitGesture == InitWith(GestureProps, {"ltr"})

NextGesture ==
    \/ Mount(1)
    \/ Unmount(1)
    \/ Tick
    \/ ResizeAny(1)
    \/ \E axis \in Axes, offset \in Offsets : TrackClick(1, axis, offset)
    \/ \E axis \in Axes, offset \in Offsets : ThumbDrag(1, axis, offset)
    \/ \E axis \in Axes : ThumbDragStart(1, axis)
    \/ \E axis \in Axes : ThumbDragEnd(1, axis)

SpecGesture == InitGesture /\ [][NextGesture]_vars

(***************************************************************************)
(* SpecDetect: one instance whose viewport is scrolled and whose thumbs    *)
(* are dragged while the clock of the activity detector runs.              *)
(***************************************************************************)
DetectProps ==
    {[DefaultProps EXCEPT !.onScrollStart = a, !.onScrollStop = b] :
        a \in BOOLEAN, b \in BOOLEAN}

InitDetect == InitWith(DetectProps, {"ltr"})

NextDetect ==
    \/ Mount(1)
    \/ Unmount(1)
    \/ Tick
    \/ \E lay \in YLayouts : Resize(1, "Y", lay)
    \/ \E toEnd \in BOOLEAN : UserScroll(1, "Y", toEnd)
    \/ \E offset \in Offsets : ThumbDrag(1, "Y", offset)
    \/ TimePasses
    \/ TimerFire(1)

SpecDetect == InitDetect /\ [][NextDetect]_vars

(***************************************************************************)
(* SpecLoop: the instances of a page mount and unmount under the loop.     *)
(***************************************************************************)
InitLoop == InitWith({DefaultProps}, {"ltr"})

NextLoop ==
    \/ \E i \in Insts : Mount(i)
    \/ \E i \in Insts : Unmount(i)
    \/ Tick
    \/ \E lay \in YLayouts : Resize(1, "Y", lay)

SpecLoop == InitLoop /\ [][NextLoop]_vars

(***************************************************************************)
(* The static geometry methods, called with every combination of whole     *)
(* lengths up to GeomMax: the arguments are drawn at the start, a step     *)
(* calls one method with them.                                             *)
(***************************************************************************)
Lengths == 0..GeomMax
\* `value` is the argument that is not a length of the track, the thumb, the
\* content or the viewport: minimalSize, scrollValue or offset
Arguments ==
    [trackSize : Lengths, thumbSize : Lengths, scrollableSize : Lengths,
     viewportSize : Lengths, value : Lengths]
Call(op, args, result) == [Step(op, 0) EXCEPT !.args = args, !.result = result]

CallThumbSize ==
    /\ fx.op = "arguments"
    /\ fx' = Call("computeThumbSize", fx.args,
                  computeThumbSize(Num(fx.args.trackSize), Num(fx.args.scrollableSize),
                                   Num(fx.args.viewportSize), Num(fx.args.value)))
    /\ UNCHANGED <<inst, loop, hist>>

CallThumbOffset ==
    /\ fx.op = "arguments"
    /\ fx' = Call("computeThumbOffset", fx.args,
                  computeThumbOffset(Num(fx.args.trackSize), Num(fx.args.thumbSize),
                                     Num(fx.args.scrollableSize),
                                     Num(fx.args.viewportSize), Num(fx.args.value)))
    /\ UNCHANGED <<inst, loop, hist>>

CallScrollForOffset ==
    /\ fx.op = "arguments"
    /\ fx' = Call("computeScrollForOffset", fx.args,
                  computeScrollForOffset(Num(fx.args.trackSize), Num(fx.args.thumbSize),
                                         Num(fx.args.value),
                                         Num(fx.args.scrollableSize),
                                         Num(fx.args.viewportSize)))
    /\ UNCHANGED <<inst, loop, hist>>

\* the offset computeThumbOffset returned for a scroll value is handed to
\* computeScrollForOffset with the same lengths
CallScrollForThumbOffset ==
    /\ fx.op = "computeThumbOffset"
    /\ fx' = Call("scrollForThumbOffset", fx.args,
                  computeScrollForOffset(Num(fx.args.trackSize), Num(fx.args.thumbSize),
                                         fx.result,
                                         Num(fx.args.scrollableSize),
                                         Num(fx.args.viewportSize)))
    /\ UNCHANGED <<inst, loop, hist>>

InitGeom ==
    /\ inst = [i \in Insts |-> Constructed(DefaultProps, InitialViewport("ltr"))]
    /\ loop = [targets |-> << >>, active |-> FALSE]
    /\ \E args \in Arguments : fx = Call("arguments", args, Num(0))
    /\ hist = [mounts |-> << >>, since |-> [i \in Insts |-> Null],
               signals |-> [i \in Insts |-> 0], lastNote |-> [i \in Insts |-> "none"]]

NextGeom ==
    \/ CallThumbSize
    \/ CallThumbOffset
    \/ CallScrollForOffset
    \/ CallScrollForThumbOffset

SpecGeom == InitGeom /\ [][NextGeom]_vars

(***************************************************************************)
(* Reading the trace of a handler.                                         *)
(***************************************************************************)
\* the events by which a pass changes what is displayed or tells an observer
VisualEvents == {"setState", "thumb", "track", "holder"}
Has(log, names) == \E k \in DOMAIN log : log[k].e \in names
Count(log, names) == Cardinality({k \in DOMAIN log : log[k].e \in names})
\* the instance without the trace of its last handler
Core(s) == [s EXCEPT !.log = << >>]

(***************************************************************************)
(* C1: update(false) on an instance whose orientation is resolved and      *)
(* whose 13 sampled and derived fields all equal the stored snapshot       *)
(* writes no style, sets no state, does not call onScroll, and returns     *)
(* the stored snapshot, which stays the one it was.                        *)
(***************************************************************************)
C1_IdlePassIsNoOp ==
    [][\A i \in Insts :
          ( /\ fx'.op = "Tick" /\ InSeq(fx'.ticked, i)
            /\ inst[i].state.isRtl # Null
            /\ Sample(inst[i]) = inst[i].scrollValues )
          => /\ ~Has(inst'[i].log, VisualEvents \cup {"onScroll", "commit"})
             /\ inst'[i].log[Len(inst'[i].log)] = Ev("return", inst[i].scrollValues, 0)
             /\ Core(inst'[i]) = Core(inst[i])]_vars

\* a tick found a synchronized instance whose content overflows on both axes
C1_Witness ==
    /\ fx.op = "Tick" /\ InSeq(fx.ticked, 1)
    /\ Len(inst[1].log) = 3
    /\ inst[1].log[2].e = "sample" /\ inst[1].log[2].b = {}
    /\ inst[1].scrollValues.scrollYPossible = 1
    /\ inst[1].scrollValues.scrollXPossible = 1

(***************************************************************************)
(* C2: a pass that finds a track-visibility field changed issues exactly   *)
(* one visibility setState, then runs a forced pass, and that forced pass  *)
(* writes the geometry of the thumb of every affected axis (its size and   *)
(* offset, or its collapse) before the outer pass returns.                 *)
(***************************************************************************)
\* event k of the trace is a sample that found a visibility field changed
VisSample(log, k) == log[k].e = "sample" /\ visibilityChanged(log[k].b)
\* event k of the trace is a setState of the visibility flags
VisSetState(log, k) == log[k].e = "setState" /\ "trackYVisible" \in DOMAIN log[k].a
\* the axes whose visibility field is in a change mask
AffectedAxes(mask) ==
    (IF 10 \in mask THEN {"Y"} ELSE {}) \cup (IF 11 \in mask THEN {"X"} ELSE {})

C2_VisibilityThenThumbGeometry ==
    \A i \in Insts :
        LET log == inst[i].log
        IN  /\ Cardinality({k \in DOMAIN log : VisSetState(log, k)})
                  = Cardinality({k \in DOMAIN log : VisSample(log, k)})
            /\ \A k \in DOMAIN log :
                  VisSample(log, k) =>
                     /\ k < Len(log) /\ VisSetState(log, k + 1)
                     /\ \E j \in (k + 2)..Len(log) :
                           /\ log[j].e = "update" /\ log[j].a
                           /\ \A axis \in AffectedAxes(log[k].b) :
                                 ThumbOf(inst[i], axis).present =>
                                    \E m \in (j + 1)..Len(log) :
                                       log[m].e = "thumb" /\ log[m].a = axis

(***************************************************************************)
(* C3: on an instance with onScrollStart or onScrollStop, a burst of       *)
(* signals (scroll events, drag moves) whose gaps are shorter than the     *)
(* threshold gives one start, with its first signal, and one stop, when    *)
(* the threshold has passed since its last signal; starts and stops        *)
(* alternate, a start first.                                               *)
(***************************************************************************)
\* the last step ran a handler of instance i
Ran(i) == fx.i = i \/ (fx.op = "Tick" /\ InSeq(fx.ticked, i))

C3_OneStartOneStopPerBurst ==
    [][\A i \in Insts : Observed(i) =>
          LET p == inst[i].props
              log == IF Ran(i)' THEN inst'[i].log ELSE << >>
              signal == fx'.i = i /\ fx'.op \in {"UserScroll", "ThumbDrag"}
              fired == fx'.i = i /\ fx'.op = "TimerFire"
              starts == Count(log, {"onScrollStart"})
              stops == Count(log, {"onScrollStop"})
          IN  \* a start with the first signal of a burst and with no other
              /\ starts = IF signal /\ hist.since[i] = Null /\ p.onScrollStart
                          THEN 1 ELSE 0
              \* a stop when the timer fires, which is when the threshold has
              \* passed since the last signal, and at no other time
              /\ stops = IF fired /\ p.onScrollStop THEN 1 ELSE 0
              /\ fired => hist.since[i] = ScrollDetectionThreshold
              /\ hist'.since[i] = ScrollDetectionThreshold => TimerDue(inst'[i])
              /\ hist'.since[i] # Null => inst'[i].timeout
              \* alternation
              /\ (starts > 0 /\ p.onScrollStop) => hist.lastNote[i] \in {"none", "stop"}
              /\ (stops > 0 /\ p.onScrollStart) => hist.lastNote[i] = "start"]_vars

\* the stop of a burst of at least two signals, on an instance with both observers
C3_Witness ==
    /\ fx.op = "TimerFire" /\ fx.i = 1
    /\ inst[1].props.onScrollStart /\ inst[1].props.onScrollStop
    /\ hist.signals[1] = 2
    /\ hist.lastNote[1] = "stop"
    /\ Has(inst[1].log, {"onScrollStop"})

(***************************************************************************)
(* C4: after any sequence of mounts and unmounts the frame loop is         *)
(* scheduled exactly when an instance is registered, and the registered    *)
(* instances are the mounted ones: the loop starts with the first mount    *)
(* and stops with the unmount of the last mounted instance.                *)
(***************************************************************************)
C4_LoopRunsIffRegistered ==
    /\ loop.active <=> loop.targets # << >>
    /\ \A i \in Insts : InSeq(loop.targets, i) <=> inst[i].phase = "mounted"
    /\ loop.active <=> \E i \in Insts : inst[i].phase = "mounted"

\* the loop has stopped with the unmount of the last of several instances
C4_Witness ==
    /\ fx.op = "Unmount"
    /\ Len(hist.mounts) >= 2
    /\ \A i \in Insts : inst[i].phase # "mounted"
    /\ ~loop.active

(***************************************************************************)
(* C5: a tick of the loop calls update() once on each registered instance, *)
(* in the order of registration, and on no other instance; an instance     *)
(* that was unregistered is left out and the others are still called.      *)
(***************************************************************************)
\* the mounted instances in the order of their mounts
MountedInOrder == SelectSeq(hist.mounts, LAMBDA j : inst[j].phase = "mounted")

C5_TickVisitsRegisteredInOrder ==
    [][fx'.op = "Tick" =>
          /\ fx'.ticked = MountedInOrder
          /\ \A m, n \in DOMAIN fx'.ticked : fx'.ticked[m] = fx'.ticked[n] => m = n
          /\ \A i \in Insts :
                IF inst[i].phase = "mounted"
                THEN /\ inst'[i] = update(Begin(inst[i]), FALSE)
                     /\ Count(inst'[i].log, {"update"}) >= 1
                     /\ inst'[i].log[1] = Ev("update", FALSE, 0)
                ELSE inst'[i] = inst[i]]_vars

\* a tick after the second of three registered instances was unmounted
C5_Witness ==
    /\ fx.op = "Tick"
    /\ Len(hist.mounts) = 3
    /\ inst[hist.mounts[2]].phase = "unmounted"
    /\ fx.ticked = <<hist.mounts[1], hist.mounts[3]>>
    /\ \A k \in {1, 3} : inst[hist.mounts[k]].log[1].e = "update"

(***************************************************************************)
(* C6: assigning the public scrollTop or scrollLeft of an instance whose   *)
(* viewport is attached writes the value to the viewport and then runs a   *)
(* synchronization pass within the assignment, for scrollLeft as for       *)
(* scrollTop.                                                              *)
(***************************************************************************)
C6_SettersSynchronize ==
    \A i \in Insts :
        (fx.i = i /\ fx.op \in {"SetScrollTop", "SetScrollLeft"} /\ inst[i].contentEl)
        => \E k, j \in DOMAIN inst[i].log :
              /\ k < j
              /\ inst[i].log[k].e = "write"
              /\ inst[i].log[k].a = (IF fx.op = "SetScrollTop" THEN "Y" ELSE "X")
              /\ inst[i].log[j].e = "update"

(***************************************************************************)
(* C7: update(), forced or not, on an instance whose viewport element is   *)
(* not attached does not fault, changes nothing, and returns the stored    *)
(* snapshot.                                                               *)
(***************************************************************************)
\* the instance without the trace and the fault mark of its last handler
Quiet(s) == [s EXCEPT !.log = << >>, !.fault = FALSE]

C7_PassWithoutViewportIsNoOp ==
    [][\A i \in Insts :
          (fx'.i = i /\ fx'.op \in {"Update", "UpdateForced"} /\ ~inst[i].contentEl)
          => /\ ~inst'[i].fault
             /\ Quiet(inst'[i]) = Quiet(inst[i])
             /\ inst'[i].log[Len(inst'[i].log)].e = "return"
             /\ inst'[i].log[Len(inst'[i].log)].a = inst[i].scrollValues]_vars

(***************************************************************************)
(* C8: a click on a track writes the scroll position of the clicked axis   *)
(* only.  With trackClickBehavior "jump" the value written is              *)
(* computeScrollForOffset(track length, thumb length, offset, content      *)
(* size, viewport size); with "step" it is the current position plus one   *)
(* viewport length if the current position is below that target and minus *)
(* one viewport length otherwise, however far the target is.               *)
(***************************************************************************)
\* the positions of the trace at which the viewport is written
Writes(log) == {k \in DOMAIN log : log[k].e = "write"}
\* the metrics of an axis of the viewport
PositionOf(v, axis) == IF axis = "X" THEN v.scrollLeft ELSE v.scrollTop
ClientOf(v, axis) == IF axis = "X" THEN v.clientWidth ELSE v.clientHeight
ContentOf(v, axis) == IF axis = "X" THEN v.scrollWidth ELSE v.scrollHeight
OtherAxis(axis) == IF axis = "X" THEN "Y" ELSE "X"
\* computeScrollForOffset of a pointer offset on an axis of instance s
TargetScroll(s, axis, offset) ==
    computeScrollForOffset(Num(TrackLen), thumbClientSize(s, axis), Num(offset),
                           Num(ContentOf(s.vp, axis)), Num(ClientOf(s.vp, axis)))
\* instance t is instance s but for the position of one axis, set by an
\* assignment of value
OnlyAxisWritten(s, t, axis, value) ==
    /\ PositionOf(t.vp, axis)
          = DomStore(value, ContentOf(s.vp, axis) - ClientOf(s.vp, axis))
    /\ PositionOf(t.vp, OtherAxis(axis)) = PositionOf(s.vp, OtherAxis(axis))
    /\ [Quiet(t) EXCEPT !.vp = s.vp] = Quiet(s)

C8_TrackClickJumpsOrSteps ==
    [][\A i \in Insts : (fx'.i = i /\ fx'.op = "TrackClick") =>
          LET s == inst[i]
              log == inst'[i].log
              axis == fx'.axis
              target == TargetScroll(s, axis, fx'.offset)
              current == PositionOf(s.vp, axis)
              expected == IF s.props.trackClickBehavior = "jump" THEN target
                          ELSE IF JsLt(Num(current), target)
                          THEN Num(current + ClientOf(s.vp, axis))
                          ELSE Num(current - ClientOf(s.vp, axis))
          IN  /\ Cardinality(Writes(log)) = 1
              /\ \A k \in Writes(log) : log[k].a = axis /\ log[k].b = expected
              /\ OnlyAxisWritten(s, inst'[i], axis, expected)]_vars

\* a step click moved the vertical position forward by one viewport length
\* although the target of the click lies further away
C8_Witness ==
    /\ fx.op = "TrackClick" /\ fx.axis = "Y"
    /\ inst[1].props.trackClickBehavior = "step"
    /\ inst[1].vp.scrollTop = inst[1].vp.clientHeight
    /\ \E k \in Writes(inst[1].log) :
          /\ inst[1].log[k].b = Num(inst[1].vp.clientHeight)
          /\ JsLt(inst[1].log[k].b, TargetScroll(inst[1], "Y", fx.offset))

(***************************************************************************)
(* C9: a drag move of a thumb first tells the activity detector and then   *)
(* writes computeScrollForOffset(track length, thumb length, pointer       *)
(* offset, content size, viewport size) to the scroll position of the      *)
(* thumb's axis, the other axis staying as it is; the start and the end    *)
(* of a drag write no scroll position.                                     *)
(***************************************************************************)
C9_ThumbDragSignalsThenWrites ==
    [][\A i \in Insts :
          /\ (fx'.i = i /\ fx'.op = "ThumbDrag") =>
                LET s == inst[i]
                    log == inst'[i].log
                    axis == fx'.axis
                    target == TargetScroll(s, axis, fx'.offset)
                IN  /\ Cardinality(Writes(log)) = 1
                    /\ \A k \in Writes(log) :
                          /\ log[k].a = axis /\ log[k].b = target
                          /\ log[1].e = "scrollDetect" /\ 1 < k
                    /\ PositionOf(inst'[i].vp, axis)
                          = DomStore(target, ContentOf(s.vp, axis) - ClientOf(s.vp, axis))
                    /\ PositionOf(inst'[i].vp, OtherAxis(axis))
                          = PositionOf(s.vp, OtherAxis(axis))
          /\ (fx'.i = i /\ fx'.op \in {"ThumbDragStart", "ThumbDragEnd"}) =>
                /\ Writes(inst'[i].log) = {}
                /\ inst'[i].vp = inst[i].vp]_vars

\* a drag of the horizontal thumb moved the horizontal position away from 0
\* while the vertical position stayed away from 0
C9_Witness ==
    /\ fx.op = "ThumbDrag" /\ fx.axis = "X"
    /\ inst[1].vp.scrollLeft > 0 /\ inst[1].vp.scrollTop > 0
    /\ inst[1].log[1].e = "scrollDetect"
    /\ \E k \in Writes(inst[1].log) : Truthy(inst[1].log[k].b)

(***************************************************************************)
(* C10: wherever a pass places the horizontal thumb, its offset is         *)
(* thumbSize + rawOffset - trackSize when the committed orientation is     *)
(* right-to-left and rawOffset otherwise, rawOffset being                  *)
(* computeThumbOffset of the committed metrics; the vertical thumb is      *)
(* always placed at its raw offset.                                        *)
(***************************************************************************)
\* the snapshot committed last before event k of the trace
CommittedBefore(log, k) ==
    LET c == CHOOSE j \in 1..k : /\ log[j].e = "commit"
                                 /\ \A m \in (j + 1)..k : log[m].e # "commit"
    IN  log[c].a

RawOffsetX(cur, el) ==
    computeThumbOffset(Num(TrackLen), el.size, Num(cur.scrollWidth),
                       Num(cur.clientWidth), Num(cur.scrollLeft))
RawOffsetY(cur, el) ==
    computeThumbOffset(Num(TrackLen), el.size, Num(cur.scrollHeight),
                       Num(cur.clientHeight), Num(cur.scrollTop))

C10_RtlMirrorsOnlyX ==
    \A i \in Insts : \A k \in DOMAIN inst[i].log :
        LET log == inst[i].log
            el == log[k].b
            cur == CommittedBefore(log, k)
        IN  (log[k].e = "thumb" /\ el.display = "")
            => IF log[k].a = "X"
               THEN el.transform =
                       IF cur.isRtl = 1
                       THEN JsSub(JsAdd(el.size, RawOffsetX(cur, el)), Num(TrackLen))
                       ELSE RawOffsetX(cur, el)
               ELSE el.transform = RawOffsetY(cur, el)

\* a pass placed the horizontal thumb of a right-to-left instance that is
\* scrolled away from the start, and the thumb does not fill the rest of the track
C10_Witness ==
    \E k \in DOMAIN inst[1].log :
        /\ inst[1].log[k].e = "thumb" /\ inst[1].log[k].a = "X"
        /\ inst[1].log[k].b.display = ""
        /\ inst[1].scrollValues.isRtl = 1
        /\ inst[1].scrollValues.scrollLeft > 0
        /\ inst[1].log[k].b.transform # RawOffsetX(inst[1].scrollValues, inst[1].log[k].b)

(***************************************************************************)
(* C11: for scrollableSize > viewportSize, trackSize > thumbSize > 0 and   *)
(* 0 <= scrollValue <= scrollableSize - viewportSize, handing the offset   *)
(* computeThumbOffset returns for scrollValue to computeScrollForOffset,   *)
(* with the same lengths, gives scrollValue back within one pixel.         *)
(***************************************************************************)
\* the number a lies within tol of the whole number b
Within(a, b, tol) == IsFin(a) /\ Abs(a.n - b * a.d) <= tol * a.d

C11_OffsetRoundTrip ==
    ( /\ fx.op = "scrollForThumbOffset"
      /\ fx.args.scrollableSize > fx.args.viewportSize
      /\ fx.args.trackSize > fx.args.thumbSize /\ fx.args.thumbSize > 0
      /\ fx.args.value <= fx.args.scrollableSize - fx.args.viewportSize )
    => Within(fx.result, fx.args.value, 1)

(***************************************************************************)
(* C12: the stored snapshot never has scrollXPossible (scrollYPossible)    *)
(* true while scrollXBlocked (scrollYBlocked) is true, and a pass that     *)
(* runs with noScroll, noScrollX or noScrollY set commits the possible     *)
(* flag of the blocked axes as false.                                      *)
(***************************************************************************)
C12_BlockedIsNeverPossible ==
    \A i \in Insts :
       LET sv == inst[i].scrollValues
           p == inst[i].props
           log == inst[i].log
       IN  /\ ~(sv.scrollXPossible = 1 /\ sv.scrollXBlocked = 1)
           /\ ~(sv.scrollYPossible = 1 /\ sv.scrollYBlocked = 1)
           /\ \A k \in DOMAIN log :
                 log[k].e = "commit" =>
                    /\ (p.noScroll \/ p.noScrollX) =>
                          (log[k].a.scrollXBlocked = 1 /\ log[k].a.scrollXPossible = 0)
                    /\ (p.noScroll \/ p.noScrollY) =>
                          (log[k].a.scrollYBlocked = 1 /\ log[k].a.scrollYPossible = 0)

\* a pass committed a snapshot while the content overflowed on both axes, X
\* blocked by noScrollX alone and Y by noScrollY alone
C12_Witness ==
    /\ Has(inst[1].log, {"commit"})
    /\ inst[1].props.noScrollX /\ inst[1].props.noScrollY /\ ~inst[1].props.noScroll
    /\ inst[1].vp.scrollWidth > inst[1].vp.clientWidth
    /\ inst[1].vp.scrollHeight > inst[1].vp.clientHeight
    /\ inst[1].scrollValues.scrollXPossible = 0
    /\ inst[1].scrollValues.scrollYPossible = 0

(***************************************************************************)
(* C13: computeThumbOffset returns exactly 0 whenever thumbSize is 0 or    *)
(* scrollableSize equals viewportSize, for every non-negative trackSize    *)
(* and scrollValue, a scrollValue above 0 included.                        *)
(***************************************************************************)
C13_ThumbOffsetZeroWithoutRange ==
    ( /\ fx.op = "computeThumbOffset"
      /\ (fx.args.thumbSize = 0 \/ fx.args.scrollableSize = fx.args.viewportSize) )
    => fx.result = Num(0)

(***************************************************************************)
(* C14: computeScrollForOffset returns exactly 0 whenever trackSize equals *)
(* thumbSize, for every offset and every pair of sizes.                    *)
(***************************************************************************)
C14_ScrollForOffsetZeroOnCoveredTrack ==
    (fx.op = "computeScrollForOffset" /\ fx.args.trackSize = fx.args.thumbSize)
    => fx.result = Num(0)

(***************************************************************************)
(* C15: computeThumbSize called with scrollableSize = 0 takes the ratio    *)
(* as 0 and returns 0, a finite number.                                    *)
(***************************************************************************)
C15_ThumbSizeOfEmptyContent ==
    (fx.op = "computeThumbSize" /\ fx.args.scrollableSize = 0)
    => fx.result = Num(0)

(***************************************************************************)
(* C16: a forced pass, update(true), on an instance whose orientation is   *)
(* resolved and whose tracks are rendered recomputes and applies the       *)
(* thumb visuals of both axes, also when no sampled field differs from     *)
(* the stored snapshot.                                                    *)
(***************************************************************************)
ThumbWritten(log, axis) ==
    \E k \in DOMAIN log : log[k].e = "thumb" /\ log[k].a = axis

C16_ForcedPassAppliesThumbs ==
    [][\A i \in Insts :
          ( /\ fx'.op = "UpdateForced" /\ fx'.i = i
            /\ inst[i].contentEl
            /\ inst[i].state.isRtl # Null
            /\ inst[i].trackXEl.present /\ inst[i].trackYEl.present
            /\ inst'[i].trackXEl.present /\ inst'[i].trackYEl.present )
          => /\ ThumbWritten(inst'[i].log, "X")
             /\ ThumbWritten(inst'[i].log, "Y")]_vars

(***************************************************************************)
(* C17: on an instance with onScroll configured, a pass that commits while *)
(* the stored snapshot's scrollTop is still null (the first commit) does   *)
(* not call onScroll; every later committing pass calls it exactly once,   *)
(* with the snapshot it committed and the snapshot that was stored when    *)
(* the pass began; no pass that returns early calls it.                    *)
(***************************************************************************)
Commits(log) == {k \in DOMAIN log : log[k].e = "commit"}
Latest(S) == CHOOSE x \in S : \A y \in S : y <= x

\* the snapshot stored when the pass that commits at event k began: the one
\* committed last before k (`old` if the handler committed none), with the
\* visibility fields a visibility branch has rewritten since
StoredBefore(old, log, k) ==
    LET cs == {j \in Commits(log) : j < k}
        from == IF cs = {} THEN 0 ELSE Latest(cs)
        base == IF cs = {} THEN old ELSE log[from].a
        vs == {m \in (from + 1)..(k - 1) :
                  log[m].e = "setState" /\ "trackYVisible" \in DOMAIN log[m].a}
    IN  IF vs = {} THEN base
        ELSE [base EXCEPT !.trackYVisible = B(log[Latest(vs)].a.trackYVisible),
                          !.trackXVisible = B(log[Latest(vs)].a.trackXVisible)]

\* the onScroll calls between the commit at event k and the return of its pass
NotifiedAfter(log, k) ==
    {m \in (k + 1)..Len(log) :
        /\ log[m].e = "onScroll"
        /\ \A j \in (k + 1)..m : log[j].e # "return"}

C17_OnScrollOncePerLaterCommit ==
    [][\A i \in Insts :
          (Ran(i)' /\ inst'[i].props.onScroll) =>
             LET log == inst'[i].log
                 old == inst[i].scrollValues
             IN  /\ \A k \in Commits(log) :
                       IF StoredBefore(old, log, k).scrollTop = Null
                       THEN NotifiedAfter(log, k) = {}
                       ELSE \E m \in NotifiedAfter(log, k) :
                               /\ NotifiedAfter(log, k) = {m}
                               /\ log[m].a = log[k].a
                               /\ log[m].b = StoredBefore(old, log, k)
                 /\ Count(log, {"onScroll"}) =
                       Cardinality({k \in Commits(log) :
                                       StoredBefore(old, log, k).scrollTop # Null})]_vars

\* a pass after the first commit told the observer of a new vertical position
C17_Witness ==
    /\ inst[1].props.onScroll
    /\ \E k \in DOMAIN inst[1].log :
          /\ inst[1].log[k].e = "onScroll"
          /\ inst[1].log[k].b.scrollTop # Null
          /\ inst[1].log[k].a.scrollTop # inst[1].log[k].b.scrollTop
          /\ inst[1].log[k].a = inst[1].scrollValues

(***************************************************************************)
(* C18: a pass that finds state.isRtl not a boolean only requests the      *)
(* resolution of the orientation (one setState of a boolean isRtl) and     *)
(* returns the stored snapshot as it was: it samples nothing, writes no    *)
(* visual and calls no onScroll. So every sample and every committed       *)
(* snapshot carries a boolean isRtl, and a snapshot that holds metrics     *)
(* holds a resolved orientation.                                           *)
(***************************************************************************)
\* event k of the trace begins a pass that goes on to request the orientation
RequestsOrientation(log, k) ==
    /\ log[k].e = "update"
    /\ k + 1 \in DOMAIN log
    /\ log[k + 1].e = "setState"
    /\ "isRtl" \in DOMAIN log[k + 1].a

C18_UnresolvedPassOnlyResolves ==
    [][\A i \in Insts :
          Ran(i)' =>
             LET log == inst'[i].log
                 old == inst[i].scrollValues
             IN  /\ ( /\ log # << >> /\ log[1].e = "update"
                      /\ inst[i].state.isRtl = Null
                      /\ ~inst'[i].fault )
                    => RequestsOrientation(log, 1)
                 /\ \A k \in DOMAIN log :
                       RequestsOrientation(log, k) =>
                          /\ log[k + 1].a.isRtl \in {0, 1}
                          /\ k + 2 \in DOMAIN log
                          /\ log[k + 2].e = "return"
                          /\ log[k + 2].a = StoredBefore(old, log, k)
                 /\ \A k \in DOMAIN log :
                       log[k].e \in {"sample", "commit"} => log[k].a.isRtl \in {0, 1}
                 /\ inst'[i].scrollValues # NullValues
                       => inst'[i].scrollValues.isRtl \in {0, 1}]_vars

\* the parent withdrew the rtl prop of a synchronized instance: a pass found
\* the orientation unresolved, requested it and returned the stored snapshot,
\* and the pass after it committed with the orientation of the viewport
C18_Witness ==
    /\ fx.op = "SetProps" /\ fx.i = 1
    /\ inst[1].props.rtl = Null
    /\ \E k \in DOMAIN inst[1].log :
          /\ RequestsOrientation(inst[1].log, k)
          /\ inst[1].log[k + 2].e = "return"
          /\ inst[1].log[k + 2].a.scrollTop # Null
          /\ \E m \in (k + 3)..Len(inst[1].log) : inst[1].log[m].e = "commit"

(***************************************************************************)
(* C19: a native scroll notification of the viewport of a mounted instance *)
(* triggers a synchronization pass: the handler of the event runs update.  *)
(***************************************************************************)
C19_ScrollEventTriggersPass ==
    \A i \in Insts :
       (fx.op = "UserScroll" /\ fx.i = i /\ inst[i].phase = "mounted")
       => /\ Has(inst[i].log, {"update"})
          /\ inst[i].scrollValues.scrollTop = inst[i].vp.scrollTop
          /\ inst[i].scrollValues.scrollLeft = inst[i].vp.scrollLeft

(***************************************************************************)
(* C20: when a pass that did not return early has ended, for each axis     *)
(* the stored snapshot's trackXVisible (trackYVisible) equals              *)
(* scrollXPossible (scrollYPossible) or the permanent-track override of    *)
(* that axis, and state.trackXVisible (state.trackYVisible), the value     *)
(* rendering takes, equals the stored one. The state is read when the      *)
(* handler that ran the pass has returned, that is, when React has         *)
(* applied the setState of the pass.                                       *)
(***************************************************************************)
TrackVisibleOf(sv, p, axis) ==
    IF axis = "X"
    THEN B(sv.scrollXPossible = 1 \/ p.permanentTracks \/ p.permanentTrackX)
    ELSE B(sv.scrollYPossible = 1 \/ p.permanentTracks \/ p.permanentTrackY)

C20_TrackVisibilityFollowsSnapshot ==
    [][\A i \in Insts :
          (Ran(i)' /\ Has(inst'[i].log, {"commit"})) =>
             LET log == inst'[i].log
                 sv == inst'[i].scrollValues
                 p == inst'[i].props
                 st == inst'[i].state
             IN  /\ \A k \in Commits(log) :
                       /\ log[k].a.trackXVisible = TrackVisibleOf(log[k].a, p, "X")
                       /\ log[k].a.trackYVisible = TrackVisibleOf(log[k].a, p, "Y")
                 /\ sv = log[Latest(Commits(log))].a
                 /\ B(st.trackXVisible) = sv.trackXVisible
                 /\ B(st.trackYVisible) = sv.trackYVisible]_vars

\* a pass committed with the Y track visible by permanentTrackY alone and the X
\* track hidden, after the visibility of a track had changed
C20_Witness ==
    /\ fx.op = "Tick" /\ InSeq(fx.ticked, 1)
    /\ Has(inst[1].log, {"commit"}) /\ Has(inst[1].log, {"setState"})
    /\ inst[1].props.permanentTrackY /\ ~inst[1].props.permanentTracks
    /\ inst[1].scrollValues.scrollYPossible = 0
    /\ inst[1].scrollValues.trackYVisible = 1 /\ inst[1].state.trackYVisible
    /\ inst[1].scrollValues.trackXVisible = 0 /\ ~inst[1].state.trackXVisible

(***************************************************************************)
(* C21: on an instance with neither onScrollStart nor onScrollStop, a      *)
(* scroll signal (a native scroll event or a drag move of a thumb) does no *)
(* detector work: no timer is created, reset or cancelled, no observer is  *)
(* called, and the pending-timer state stays as it was.                    *)
(***************************************************************************)
DetectorEvents == {"onScrollStart", "onScrollStop", "clearTimeout", "setTimeout"}

C21_NoObserversNoDetectorWork ==
    [][\A i \in Insts :
          ( /\ fx'.i = i /\ fx'.op \in {"UserScroll", "ThumbDrag"}
            /\ ~inst[i].props.onScrollStart /\ ~inst[i].props.onScrollStop )
          => /\ Has(inst'[i].log, {"scrollDetect"})
             /\ ~Has(inst'[i].log, DetectorEvents)
             /\ inst'[i].timeout = inst[i].timeout
             /\ inst'[i].elapsed = inst[i].elapsed
             /\ ~inst'[i].timeout]_vars

\* a drag move reached the detector of an instance without observers and wrote
\* the scroll position
C21_Witness ==
    /\ fx.op = "ThumbDrag" /\ fx.i = 1
    /\ ~inst[1].props.onScrollStart /\ ~inst[1].props.onScrollStop
    /\ Len(inst[1].log) = 3
    /\ inst[1].log[1].e = "scrollDetect" /\ inst[1].log[3].e = "write"
    /\ inst[1].vp.scrollTop > 0

(***************************************************************************)
(* C22: after componentWillUnmount no observer of the instance is notified *)
(* any more; a detector timer that was pending at the unmount delivers no  *)
(* onScrollStop later.                                                     *)
(***************************************************************************)
ObserverEvents ==
    {"onScroll", "onScrollStart", "onScrollStop", "onDragStart", "onDragEnd"}

C22_NoNotificationAfterUnmount ==
    \A i \in Insts :
       inst[i].phase = "unmounted" => ~Has(inst[i].log, ObserverEvents)

(***************************************************************************)
(* C23: onScroll is called only with two snapshots (new, previous) that    *)
(* differ in at least one of their 13 fields; no sequence of frames, prop  *)
(* changes and forced passes calls it with two equal snapshots.            *)
(***************************************************************************)
C23_OnScrollOnlyOnChange ==
    \A i \in Insts :
       \A k \in DOMAIN inst[i].log :
          inst[i].log[k].e = "onScroll" =>
             \E b \in 0..12 :
                inst[i].log[k].a[MaskField[b]] # inst[i].log[k].b[MaskField[b]]

(***************************************************************************)
(* C24: every pass ends (it returns or throws), and a top-level call of    *)
(* update runs at most one nested pass: it samples at most twice and       *)
(* calls the visibility setState at most once; the nested pass is forced,  *)
(* finds both track-visibility bits clear and commits.                     *)
(***************************************************************************)
Opened(log, a, b) == Cardinality({j \in a..b : log[j].e = "update"})
Closed(log, a, b) == Cardinality({j \in a..b : log[j].e \in {"return", "throw"}})

\* event k begins a pass that no other pass of the trace has called
TopLevel(log, k) ==
    log[k].e = "update" /\ Opened(log, 1, k - 1) = Closed(log, 1, k - 1)

\* event m ends the pass that event k began
EndsAt(log, k, m) ==
    /\ Opened(log, k, m) = Closed(log, k, m)
    /\ \A j \in k..(m - 1) : Opened(log, k, j) > Closed(log, k, j)

VisibilitySetStates(log, k, m) ==
    {j \in k..m : log[j].e = "setState" /\ "trackYVisible" \in DOMAIN log[j].a}

Samples(log, k, m) == {j \in k..m : log[j].e = "sample"}

C24_PassRecursesAtMostOnce ==
    \A i \in Insts :
       LET log == inst[i].log
       IN  \A k \in DOMAIN log :
              TopLevel(log, k) =>
                 \E m \in k..Len(log) :
                    /\ EndsAt(log, k, m)
                    /\ Opened(log, k, m) <= 2
                    /\ Cardinality(Samples(log, k, m)) <= 2
                    /\ Cardinality(VisibilitySetStates(log, k, m)) <= 1
                    /\ \A v \in VisibilitySetStates(log, k, m) :
                          /\ v + 2 \in k..m
                          /\ log[v + 1].e = "update" /\ log[v + 1].a
                          /\ log[v + 2].e = "sample"
                          /\ log[v + 2].b \cap {10, 11} = {}
                          /\ \E c \in (v + 3)..m : log[c].e = "commit"

\* a frame found only the visibility of a track changed: the pass sampled
\* twice, called setState once and committed in its nested pass
C24_Witness ==
    /\ fx.op = "Tick" /\ InSeq(fx.ticked, 1)
    /\ TopLevel(inst[1].log, 1)
    /\ EndsAt(inst[1].log, 1, Len(inst[1].log))
    /\ Cardinality(Samples(inst[1].log, 1, Len(inst[1].log))) = 2
    /\ Cardinality(VisibilitySetStates(inst[1].log, 1, Len(inst[1].log))) = 1
    /\ Has(inst[1].log, {"commit"})

(***************************************************************************)
(* C25: after every pass that commits a snapshot with scrollXPossible true *)
(* while the X track is rendered, the horizontal thumb is displayed at the *)
(* offset that belongs to the committed metrics and the committed isRtl:   *)
(* mirrored iff isRtl is true, also when isRtl is the only field the pass  *)
(* found changed.                                                          *)
(***************************************************************************)
ExpectedOffsetX(sv, el) ==
    IF sv.isRtl = 1
    THEN JsSub(JsAdd(el.size, RawOffsetX(sv, el)), Num(TrackLen))
    ELSE RawOffsetX(sv, el)

C25_ThumbXFollowsOrientation ==
    [][\A i \in Insts :
          ( /\ Ran(i)' /\ Has(inst'[i].log, {"commit"})
            /\ inst'[i].scrollValues.scrollXPossible = 1
            /\ inst[i].trackXEl.present /\ inst[i].thumbXEl.present
            /\ inst'[i].trackXEl.present /\ inst'[i].thumbXEl.present )
          => /\ inst'[i].thumbXEl.styled /\ inst'[i].thumbXEl.display = ""
             /\ inst'[i].thumbXEl.transform =
                   ExpectedOffsetX(inst'[i].scrollValues, inst'[i].thumbXEl)]_vars

(***************************************************************************)
(* C26: computeThumbSize returns 0 only when the content does not overflow *)
(* the viewport: for a scrollable size strictly greater than the viewport  *)
(* size and a positive track length the thumb size is strictly positive.   *)
(* Stated for a viewport and a minimal thumb size that are positive too.   *)
(***************************************************************************)
C26_ThumbSizePositiveWhenPossible ==
    ( /\ fx.op = "computeThumbSize"
      /\ fx.args.scrollableSize > fx.args.viewportSize
      /\ fx.args.trackSize > 0
      /\ fx.args.viewportSize > 0 /\ fx.args.value > 0 )
    => JsLt(Num(0), fx.result)

====
